---------------------------- MODULE Spec2Model ----------------------------
(***************************************************************************)
(* A model of gotour/idiomaticgo/share_memory_by_communicating.go: the     *)
(* URL poller of the "Share Memory By Communicating" codewalk.             *)
(*                                                                         *)
(* Goroutines: ShareMemory (main), numPollers Pollers, the seeding         *)
(* goroutine, one Sleep goroutine per completed Resource, the StateMonitor *)
(* goroutine.  The channels pending, complete and updates are unbuffered:  *)
(* a send and its receive are one joint step of the two goroutines.        *)
(*                                                                         *)
(* Time is abstracted: a time.Sleep(d) goroutine records d and may wake at *)
(* any later step; the ticker may fire whenever the monitor selects.       *)
(* Durations are in seconds.                                               *)
(*                                                                         *)
(* The module also models, each with a variable and a specification of its *)
(* own, Walk and Same (unnamed/part_005), IPAddr.String (unnamed/part_001),*)
(* fibonacci (gotour/ioexamples/exercise_reader.go) and Sqrt               *)
(* (gotour/errorexamples/exercise_error.go).                               *)
(***************************************************************************)
EXTENDS Integers, Sequences, FiniteSets, Bags, TLC

\* ------------------------------------------------------------ constants

numPollers == 2

pollInterval == 60

errTimeout == 10

urls == << "http://www.google.com/", "http://golang.org/", "http://blog.golang.org/" >>

\* Consecutive failed probes of one Resource explored by the model.
MaxErrCount == 2

\* What http.Head can answer: a response (its status line) or an error.
ProbeOutcomes ==
    { [err |-> FALSE, text |-> "200 OK"],
      [err |-> TRUE,  text |-> "dial tcp: i/o timeout"] }

\* The nil *Resource.
NoRes == 0

\* ---------------------------------------------------------------- state

VARIABLES
    resources,  \* the heap: Resource id -> [url, errCount]
    seeder,     \* the seeding goroutine: [pc, todo, r], todo the urls
                \* its range loop has yet to visit
    poller,     \* Poller goroutines: id -> [pc, r, s]
    sleepers,   \* bag of Sleep goroutines: [r, pc, d]
    monitor,    \* StateMonitor goroutine: [pc, s, from]
    urlStatus,  \* StateMonitor's map url -> status
    \* history variables (observations, never read by the program)
    run,        \* Resource id -> the answers of http.Head to its probes since
                \* its last success (or creation), the closing success
                \* included until the Sleep that follows it returns
    delays,     \* Resource id -> the [k, d] of the Sleep calls of that run
    emitted,    \* Resource id -> State values built by probes and not
                \* yet stored in urlStatus, oldest first
    last,       \* url -> the status of the last State built for it
    inflight,   \* Resources a Poller received and main has not yet got back
    logs,       \* the (last two) snapshots logged since the last update
    ahead,      \* url -> States of it the monitor has received minus
                \* Resources of it main has received
    received,   \* url -> the status of the last State of it the monitor
                \* has received
    lag,        \* url -> States of it the monitor has received minus
                \* those it has stored in urlStatus
    stored,     \* the urls of the States the monitor has stored
    \* the other programs of the repository, one variable each
    same,       \* a call of Same: its arguments, channels and goroutines
    ip,         \* a call of IPAddr.String: receiver and result
    fib,        \* the closures made by fibonacci and their calls
    sq,         \* a call of Sqrt: argument and results
    nap,        \* an evaluation of the argument of time.Sleep in Sleep
    list        \* a List[int] in use: its Lists and Nodes, the last result

prog == << resources, seeder, poller, sleepers, monitor, urlStatus >>

hist == << run, delays, emitted, last, inflight, logs, ahead,
           received, lag, stored >>

tour == << same, ip, fib, sq, nap, list >>

vars == << resources, seeder, poller, sleepers, monitor, urlStatus,
           run, delays, emitted, last, inflight, logs, ahead,
           received, lag, stored,
           same, ip, fib, sq, nap, list >>

\* ---------------------------------------------------------------- helpers

\* m[k] = v on a Go map (insert or overwrite); also a fresh heap cell.
MapSet(m, k, v) == [x \in DOMAIN m \cup {k} |-> IF x = k THEN v ELSE m[x]]

Last(s) == s[Len(s)]

\* The last two elements of s (s itself when shorter).
Tail2(s) == IF Len(s) <= 2 THEN s ELSE SubSeq(s, Len(s) - 1, Len(s))

Pollers == DOMAIN poller

IdlePoller == [pc |-> "recv", r |-> NoRes, s |-> ""]

NoState == [url |-> "", status |-> ""]

IdleMonitor == [pc |-> "select", s |-> NoState, from |-> 0]

\* ------------------------------------------------------- pure functions

\* Faulty variant: Poll forgets "r.errCount = 0" on success.
ResourcePollNoReset(res, o) ==
    IF o.err
    THEN [res |-> [res EXCEPT !.errCount = @ + 1], s |-> o.text]
    ELSE [res |-> res, s |-> o.text]

\* Faulty variant: Poll writes "r.errCount = 1" where it should count up.
ResourcePollSetOne(res, o) ==
    IF o.err
    THEN [res |-> [res EXCEPT !.errCount = 1], s |-> o.text]
    ELSE [res |-> [res EXCEPT !.errCount = 0], s |-> o.text]

\* (r *Resource).Poll with the answer o of http.Head: the Resource after
\* the call and the string returned.
ResourcePoll(res, o) ==
    IF o.err
    THEN [res |-> [res EXCEPT !.errCount = @ + 1], s |-> o.text]
    ELSE [res |-> [res EXCEPT !.errCount = 0],     s |-> o.text]

\* Faulty variant: Sleep adds errTimeout once, whatever the count.
SleepDelayFlat(errCount) == pollInterval + errTimeout

\* The argument of time.Sleep in (r *Resource).Sleep.
SleepDelay(errCount) == pollInterval + errTimeout * errCount

\* Faulty variant: logState prints each url twice ("k, k" for "k, v").
logStateKeys(s) == [u \in DOMAIN s |-> u]

\* logState: what is printed is the map it is given.
logState(s) == s

\* Faulty variant: the Poller returns the Resource before it reports the State.
PollerNextOutFirst(pc) ==
    CASE pc = "recv"   -> "poll"
      [] pc = "poll"   -> "out"
      [] pc = "out"    -> "status"
      [] pc = "status" -> "recv"

\* Faulty variant: the Poller handles one Resource and returns ("if r, ok :=
\* <-in" for "for r := range in").
PollerNextOnce(pc) ==
    CASE pc = "recv"   -> "poll"
      [] pc = "poll"   -> "status"
      [] pc = "status" -> "out"
      [] pc = "out"    -> "exit"

\* The statement order of the Poller loop body: receive, Poll, send the
\* State, send the Resource, receive again.
PollerNext(pc) ==
    CASE pc = "recv"   -> "poll"
      [] pc = "poll"   -> "status"
      [] pc = "status" -> "out"
      [] pc = "out"    -> "recv"

\* Poller p after the statement at pc: back at the top of the loop the
\* iteration's r and s are out of scope.
PollerStep(p, r, s) ==
    LET next == PollerNext(poller[p].pc)
    IN  IF next = "recv" THEN IdlePoller ELSE [pc |-> next, r |-> r, s |-> s]

\* ----------------------------------------------------------------- init

\* The top of "for _, url := range us".
SeedLoop(us) ==
    [pc |-> IF us = << >> THEN "done" ELSE "alloc", todo |-> us, r |-> NoRes]

\* ShareMemory has made the channels and started the StateMonitor, n Pollers
\* and the seeding goroutine over the urls us.
InitWith(n, us) ==
    /\ resources = << >>
    /\ seeder = SeedLoop(us)
    /\ poller = [p \in 1..n |-> IdlePoller]
    /\ sleepers = EmptyBag
    /\ monitor = IdleMonitor
    /\ urlStatus = << >>
    /\ run = << >>
    /\ delays = << >>
    /\ emitted = << >>
    /\ last = << >>
    /\ inflight = {}
    /\ logs = << >>
    /\ ahead = [u \in {us[i] : i \in 1..Len(us)} |-> 0]
    /\ received = << >>
    /\ lag = [u \in {us[i] : i \in 1..Len(us)} |-> 0]
    /\ stored = {}

\* No call of the other programs is under way.
NotCalled == [pc |-> "off"]

NoExercise ==
    /\ same = NotCalled
    /\ ip = NotCalled
    /\ fib = NotCalled
    /\ sq = NotCalled
    /\ nap = NotCalled
    /\ list = NotCalled

Init == InitWith(numPollers, urls) /\ NoExercise

\* -------------------------------------------------------------- actions

\* Faulty variant: the seeding loop makes the Resource and goes on to the next
\* url without sending it.
SeedAllocNoSend ==
    /\ seeder.pc = "alloc"
    /\ LET id == Cardinality(DOMAIN resources) + 1
       IN  /\ resources' = MapSet(resources, id, [url |-> Head(seeder.todo), errCount |-> 0])
           /\ seeder' = SeedLoop(Tail(seeder.todo))
           /\ run' = MapSet(run, id, << >>)
           /\ delays' = MapSet(delays, id, << >>)
           /\ emitted' = MapSet(emitted, id, << >>)
    /\ UNCHANGED << tour, ahead, received, lag, stored, poller, sleepers, monitor, urlStatus, last, inflight, logs >>

\* The seeding goroutine evaluates &Resource{url: url} for the next url.
SeedAlloc ==
    /\ seeder.pc = "alloc"
    /\ LET id == Cardinality(DOMAIN resources) + 1
       IN  /\ resources' = MapSet(resources, id, [url |-> Head(seeder.todo), errCount |-> 0])
           /\ seeder' = [seeder EXCEPT !.pc = "send", !.r = id]
           /\ run' = MapSet(run, id, << >>)
           /\ delays' = MapSet(delays, id, << >>)
           /\ emitted' = MapSet(emitted, id, << >>)
    /\ UNCHANGED << tour, ahead, received, lag, stored, poller, sleepers, monitor, urlStatus, last, inflight, logs >>

\* Poller p's "for r := range in" receives r.
PollerRecv(p, r) ==
    /\ poller[p].pc = "recv"
    /\ poller' = [poller EXCEPT ![p] = PollerStep(p, r, "")]
    /\ inflight' = inflight \cup {r}

\* Faulty variant: the seeding loop sends the pointer it sent before (one Resource
\* allocated outside the loop body).
SeedSendSamePointer(p) ==
    /\ seeder.pc = "send"
    /\ PollerRecv(p, seeder.r)
    /\ seeder' = IF Len(seeder.todo) = 1 THEN SeedLoop(<< >>)
                 ELSE [seeder EXCEPT !.todo = Tail(@)]
    /\ UNCHANGED << tour, ahead, received, lag, stored, resources, sleepers, monitor, urlStatus,
                    run, delays, emitted, last, logs >>

\* pending <- &Resource{...} of the seeding goroutine meets Poller p.
SeedSend(p) ==
    /\ seeder.pc = "send"
    /\ PollerRecv(p, seeder.r)
    /\ seeder' = SeedLoop(Tail(seeder.todo))
    /\ UNCHANGED << tour, ahead, received, lag, stored, resources, sleepers, monitor, urlStatus,
                    run, delays, emitted, last, logs >>

\* Faulty variant: a failed probe ends the Poller (log.Fatal for log.Println).
PollerPollFatal(p, o) ==
    /\ poller[p].pc = "poll"
    /\ LET r == poller[p].r
           res == ResourcePoll(resources[r], o)
           fresh == run[r] = << >> \/ ~Last(run[r]).err
       IN  /\ o.err => resources[r].errCount < MaxErrCount
           /\ resources' = [resources EXCEPT ![r] = res.res]
           /\ poller' = [poller EXCEPT ![p] =
                            IF o.err THEN [pc |-> "exit", r |-> r, s |-> res.s]
                                     ELSE PollerStep(p, r, res.s)]
           /\ run' = [run EXCEPT ![r] = IF fresh THEN << o >> ELSE Append(@, o)]
           /\ delays' = [delays EXCEPT ![r] = IF fresh THEN << >> ELSE @]
           /\ emitted' = [emitted EXCEPT ![r] =
                        Append(@, [by |-> p, url |-> resources[r].url, status |-> res.s])]
           /\ last' = MapSet(last, resources[r].url, res.s)
    /\ UNCHANGED << tour, ahead, received, lag, stored, seeder, sleepers, monitor, urlStatus, inflight, logs >>

\* r.Poll() in Poller p, http.Head answering o.
PollerPoll(p, o) ==
    /\ poller[p].pc = "poll"
    /\ LET r == poller[p].r
           res == ResourcePoll(resources[r], o)
           fresh == run[r] = << >> \/ ~Last(run[r]).err
       IN  /\ o.err => resources[r].errCount < MaxErrCount
           /\ resources' = [resources EXCEPT ![r] = res.res]
           /\ poller' = [poller EXCEPT ![p] = PollerStep(p, r, res.s)]
           /\ run' = [run EXCEPT ![r] = IF fresh THEN << o >> ELSE Append(@, o)]
           /\ delays' = [delays EXCEPT ![r] = IF fresh THEN << >> ELSE @]
           /\ emitted' = [emitted EXCEPT ![r] =
                        Append(@, [by |-> p, url |-> resources[r].url, status |-> res.s])]
           /\ last' = MapSet(last, resources[r].url, res.s)
    /\ UNCHANGED << tour, ahead, received, lag, stored, seeder, sleepers, monitor, urlStatus, inflight, logs >>

\* Faulty variant: the Poller also stores the status in the map itself (the map
\* shared with the Pollers).
PollerSendStatusShared(p) ==
    /\ poller[p].pc = "status"
    /\ monitor.pc = "select"
    /\ monitor' = [pc |-> "update",
                   s |-> [url |-> resources[poller[p].r].url, status |-> poller[p].s],
                   from |-> p]
    /\ urlStatus' = MapSet(urlStatus, resources[poller[p].r].url, poller[p].s)
    /\ poller' = [poller EXCEPT ![p] = PollerStep(p, poller[p].r, poller[p].s)]
    /\ ahead' = [ahead EXCEPT ![resources[poller[p].r].url] = @ + 1]
    /\ received' = MapSet(received, resources[poller[p].r].url, poller[p].s)
    /\ lag' = [lag EXCEPT ![resources[poller[p].r].url] = @ + 1]
    /\ UNCHANGED << tour, stored, resources, seeder, sleepers,
                    run, delays, emitted, last, inflight, logs >>

\* status <- State{r.url, s} of Poller p meets "case s := <-updates".
PollerSendStatus(p) ==
    /\ poller[p].pc = "status"
    /\ monitor.pc = "select"
    /\ monitor' = [pc |-> "update",
                   s |-> [url |-> resources[poller[p].r].url, status |-> poller[p].s],
                   from |-> p]
    /\ poller' = [poller EXCEPT ![p] = PollerStep(p, poller[p].r, poller[p].s)]
    /\ ahead' = [ahead EXCEPT ![resources[poller[p].r].url] = @ + 1]
    /\ received' = MapSet(received, resources[poller[p].r].url, poller[p].s)
    /\ lag' = [lag EXCEPT ![resources[poller[p].r].url] = @ + 1]
    /\ UNCHANGED << tour, stored, resources, seeder, sleepers, urlStatus,
                    run, delays, emitted, last, inflight, logs >>

\* Faulty variant: the monitor records only the first status of a url.
MonitorUpdateInsertOnly ==
    /\ monitor.pc = "update"
    /\ urlStatus' = IF monitor.s.url \in DOMAIN urlStatus THEN urlStatus
                    ELSE MapSet(urlStatus, monitor.s.url, monitor.s.status)
    /\ monitor' = IdleMonitor
    /\ emitted' = [r \in DOMAIN emitted |->
                     IF /\ emitted[r] # << >>
                        /\ Head(emitted[r]).url = monitor.s.url
                        /\ Head(emitted[r]).by = monitor.from
                     THEN Tail(emitted[r]) ELSE emitted[r]]
    /\ logs' = << >>
    /\ lag' = [lag EXCEPT ![monitor.s.url] = @ - 1]
    /\ stored' = stored \cup {monitor.s.url}
    /\ UNCHANGED << tour, ahead, received, resources, seeder, poller, sleepers,
                    run, delays, last, inflight >>

\* Faulty variant: the monitor also logs the map each time it has stored a State.
MonitorUpdateLogs ==
    /\ monitor.pc = "update"
    /\ urlStatus' = MapSet(urlStatus, monitor.s.url, monitor.s.status)
    /\ monitor' = IdleMonitor
    /\ emitted' = [r \in DOMAIN emitted |->
                     IF /\ emitted[r] # << >>
                        /\ Head(emitted[r]).url = monitor.s.url
                        /\ Head(emitted[r]).by = monitor.from
                     THEN Tail(emitted[r]) ELSE emitted[r]]
    /\ logs' = << logState(urlStatus') >>
    /\ lag' = [lag EXCEPT ![monitor.s.url] = @ - 1]
    /\ stored' = stored \cup {monitor.s.url}
    /\ UNCHANGED << tour, ahead, received, resources, seeder, poller, sleepers,
                    run, delays, last, inflight >>

\* Faulty variant: the monitor stores the State it holds and does not go back to
\* its select, so it stores the same State again.
MonitorUpdateAgain ==
    /\ monitor.pc = "update"
    /\ urlStatus' = MapSet(urlStatus, monitor.s.url, monitor.s.status)
    /\ monitor' = monitor
    /\ emitted' = [r \in DOMAIN emitted |->
                     IF /\ emitted[r] # << >>
                        /\ Head(emitted[r]).url = monitor.s.url
                        /\ Head(emitted[r]).by = monitor.from
                     THEN Tail(emitted[r]) ELSE emitted[r]]
    /\ logs' = << >>
    /\ lag' = [lag EXCEPT ![monitor.s.url] = @ - 1]
    /\ stored' = stored \cup {monitor.s.url}
    /\ UNCHANGED << tour, ahead, received, resources, seeder, poller, sleepers,
                    run, delays, last, inflight >>

\* urlStatus[s.url] = s.status
MonitorUpdate ==
    /\ monitor.pc = "update"
    /\ urlStatus' = MapSet(urlStatus, monitor.s.url, monitor.s.status)
    /\ monitor' = IdleMonitor
    /\ emitted' = [r \in DOMAIN emitted |->
                     IF /\ emitted[r] # << >>
                        /\ Head(emitted[r]).url = monitor.s.url
                        /\ Head(emitted[r]).by = monitor.from
                     THEN Tail(emitted[r]) ELSE emitted[r]]
    /\ logs' = << >>
    /\ lag' = [lag EXCEPT ![monitor.s.url] = @ - 1]
    /\ stored' = stored \cup {monitor.s.url}
    /\ UNCHANGED << tour, ahead, received, resources, seeder, poller, sleepers,
                    run, delays, last, inflight >>

\* Faulty variant: logging consumes the map (entries deleted as they are printed).
MonitorTickDraining ==
    /\ monitor.pc = "select"
    /\ logs' = Tail2(Append(logs, logState(urlStatus)))
    /\ urlStatus' = << >>
    /\ UNCHANGED << tour, ahead, received, lag, stored, resources, seeder, poller, sleepers, monitor,
                    run, delays, emitted, last, inflight >>

\* case <-ticker.C: logState(urlStatus)
MonitorTick ==
    /\ monitor.pc = "select"
    /\ logs' = Tail2(Append(logs, logState(urlStatus)))
    /\ UNCHANGED << tour, ahead, received, lag, stored, prog, run, delays, emitted, last, inflight >>

\* Faulty variant: the Poller never sends the Resource on out.
PollerSendOutDropped(p) ==
    /\ poller[p].pc = "out"
    /\ poller' = [poller EXCEPT ![p] = PollerStep(p, poller[p].r, poller[p].s)]
    /\ UNCHANGED << tour, resources, seeder, sleepers, monitor, urlStatus, hist >>

\* Faulty variant: main calls r.Sleep(pending) itself ("go" left out), so it is back
\* at its receive only when that Sleep has sent the Resource.
PollerSendOutInline(p) ==
    /\ poller[p].pc = "out"
    /\ sleepers = EmptyBag
    /\ LET r == poller[p].r
           k == resources[r].errCount
           d == SleepDelay(k)
       IN  /\ sleepers' = sleepers (+) SetToBag({[r |-> r, pc |-> "sleep", d |-> d]})
           /\ poller' = [poller EXCEPT ![p] = PollerStep(p, r, poller[p].s)]
           /\ inflight' = inflight \ {r}
           /\ delays' = [delays EXCEPT ![r] = Append(@, [k |-> k, d |-> d])]
           /\ ahead' = [ahead EXCEPT ![resources[r].url] = @ - 1]
    /\ UNCHANGED << tour, received, lag, stored, resources, seeder, monitor, urlStatus, run, emitted, last, logs >>

\* out <- r of Poller p meets main's "for r := range complete", whose body
\* "go r.Sleep(pending)" cannot block: the new goroutine evaluates its delay
\* from the Resource it now owns and is inside time.Sleep.
PollerSendOut(p) ==
    /\ poller[p].pc = "out"
    /\ LET r == poller[p].r
           k == resources[r].errCount
           d == SleepDelay(k)
       IN  /\ sleepers' = sleepers (+) SetToBag({[r |-> r, pc |-> "sleep", d |-> d]})
           /\ poller' = [poller EXCEPT ![p] = PollerStep(p, r, poller[p].s)]
           /\ inflight' = inflight \ {r}
           /\ delays' = [delays EXCEPT ![r] = Append(@, [k |-> k, d |-> d])]
           /\ ahead' = [ahead EXCEPT ![resources[r].url] = @ - 1]
    /\ UNCHANGED << tour, received, lag, stored, resources, seeder, monitor, urlStatus, run, emitted, last, logs >>

\* Faulty variant: Sleep clears the error count once it has waited.
SleepWakeResets(sl) ==
    /\ sl.pc = "sleep"
    /\ sleepers' = (sleepers (-) SetToBag({sl})) (+) SetToBag({[sl EXCEPT !.pc = "send"]})
    /\ resources' = [resources EXCEPT ![sl.r].errCount = 0]
    /\ LET closed == run[sl.r] # << >> /\ ~Last(run[sl.r]).err
       IN  /\ run' = [run EXCEPT ![sl.r] = IF closed THEN << >> ELSE @]
           /\ delays' = [delays EXCEPT ![sl.r] = IF closed THEN << >> ELSE @]
    /\ UNCHANGED << tour, ahead, received, lag, stored, seeder, poller, monitor, urlStatus,
                    emitted, last, inflight, logs >>

\* time.Sleep returns in Sleep goroutine sl.  A run closed by a success
\* has been observed in full and is forgotten.
SleepWake(sl) ==
    /\ sl.pc = "sleep"
    /\ sleepers' = (sleepers (-) SetToBag({sl})) (+) SetToBag({[sl EXCEPT !.pc = "send"]})
    /\ LET closed == run[sl.r] # << >> /\ ~Last(run[sl.r]).err
       IN  /\ run' = [run EXCEPT ![sl.r] = IF closed THEN << >> ELSE @]
           /\ delays' = [delays EXCEPT ![sl.r] = IF closed THEN << >> ELSE @]
    /\ UNCHANGED << tour, ahead, received, lag, stored, resources, seeder, poller, monitor, urlStatus,
                    emitted, last, inflight, logs >>

\* Faulty variant: Sleep sends in a loop, so the goroutine stays at its send.
SleepSendKeeps(sl, p) ==
    /\ sl.pc = "send"
    /\ PollerRecv(p, sl.r)
    /\ sleepers' = sleepers
    /\ UNCHANGED << tour, ahead, received, lag, stored, resources, seeder, monitor, urlStatus,
                    run, delays, emitted, last, logs >>

\* Faulty variant: Sleep returns after time.Sleep without sending the Resource.
SleepSendLost(sl, p) ==
    /\ sl.pc = "send"
    /\ sleepers' = sleepers (-) SetToBag({sl})
    /\ UNCHANGED << tour, ahead, received, lag, stored, resources, seeder, poller, monitor, urlStatus,
                    run, delays, emitted, last, inflight, logs >>

\* Faulty variant: Sleep sends a copy of the Resource (done <- &Resource{r.url,
\* r.errCount}).
SleepSendCopy(sl, p) ==
    /\ sl.pc = "send"
    /\ LET id == Cardinality(DOMAIN resources) + 1
       IN  /\ resources' = MapSet(resources, id, resources[sl.r])
           /\ PollerRecv(p, id)
           /\ run' = MapSet(run, id, run[sl.r])
           /\ delays' = MapSet(delays, id, delays[sl.r])
           /\ emitted' = MapSet(emitted, id, << >>)
    /\ sleepers' = sleepers (-) SetToBag({sl})
    /\ UNCHANGED << tour, ahead, received, lag, stored, seeder, monitor, urlStatus,
                    last, logs >>

\* done <- r of Sleep goroutine sl meets Poller p; the goroutine ends.
SleepSend(sl, p) ==
    /\ sl.pc = "send"
    /\ PollerRecv(p, sl.r)
    /\ sleepers' = sleepers (-) SetToBag({sl})
    /\ UNCHANGED << tour, ahead, received, lag, stored, resources, seeder, monitor, urlStatus,
                    run, delays, emitted, last, logs >>

Next ==
    \/ SeedAlloc
    \/ \E p \in Pollers : SeedSend(p)
    \/ \E p \in Pollers, o \in ProbeOutcomes : PollerPoll(p, o)
    \/ \E p \in Pollers : PollerSendStatus(p)
    \/ MonitorUpdate
    \/ MonitorTick
    \/ \E p \in Pollers : PollerSendOut(p)
    \/ \E sl \in BagToSet(sleepers) : SleepWake(sl)
    \/ \E sl \in BagToSet(sleepers), p \in Pollers : SleepSend(sl, p)

Spec == Init /\ [][Next]_vars

\* ShareMemory configured with any number of Pollers from 1 to numPollers
\* and any non-empty prefix of urls: fewer, as many and more urls than
\* Pollers.
InitSized ==
    /\ \E n \in 1..numPollers, m \in 1..Len(urls) : InitWith(n, SubSeq(urls, 1, m))
    /\ NoExercise

SpecSized == InitSized /\ [][Next]_vars

\* ShareMemory with no Poller started (the loop "i < numPollers" with
\* numPollers = 0), one or two, over one or two urls.
InitFromNone ==
    /\ \E n \in 0..numPollers, m \in 1..2 : InitWith(n, SubSeq(urls, 1, m))
    /\ NoExercise

SpecFromNone == InitFromNone /\ [][Next]_vars

\* http.Head when every url is up: a response with status "200 OK".
Responses == {o \in ProbeOutcomes : ~o.err /\ o.text = "200 OK"}

\* The steps of ShareMemory while every probe is answered "200 OK".
NextAllUp ==
    \/ SeedAlloc
    \/ \E p \in Pollers : SeedSend(p)
    \/ \E p \in Pollers, o \in Responses : PollerPoll(p, o)
    \/ \E p \in Pollers : PollerSendStatus(p)
    \/ MonitorUpdate
    \/ MonitorTick
    \/ \E p \in Pollers : PollerSendOut(p)
    \/ \E sl \in BagToSet(sleepers) : SleepWake(sl)
    \/ \E sl \in BagToSet(sleepers), p \in Pollers : SleepSend(sl, p)

\* ------------------------------------------------------------- scheduling

\* What the Go runtime gives the goroutines.  A goroutine that can run a
\* statement of its own is eventually run (weak fairness: the allocation,
\* the probe, which is taken to return, the map update, the end of a
\* time.Sleep, and the send on complete, which main is always ready to
\* receive).  A goroutine blocked on a channel waits in the channel's FIFO
\* queue and is served before any goroutine that arrives later, so a send
\* that can be met again and again is eventually met (strong fairness: the
\* sends on pending and on updates).  select picks among its ready cases at
\* random, so the ticker case is not passed over forever either.
Fairness ==
    /\ WF_vars(SeedAlloc)
    /\ SF_vars(\E p \in Pollers : SeedSend(p))
    /\ \A p \in 1..numPollers :
        /\ WF_vars(p \in Pollers /\ \E o \in ProbeOutcomes : PollerPoll(p, o))
        /\ SF_vars(p \in Pollers /\ PollerSendStatus(p))
        /\ WF_vars(p \in Pollers /\ PollerSendOut(p))
    /\ WF_vars(MonitorUpdate)
    /\ SF_vars(MonitorTick)
    /\ \A r \in 1..Len(urls) :
        /\ WF_vars(\E sl \in BagToSet(sleepers) : sl.r = r /\ SleepWake(sl))
        /\ SF_vars(\E sl \in BagToSet(sleepers), p \in Pollers :
                      sl.r = r /\ SleepSend(sl, p))

\* ShareMemory with one Poller or two and the first two urls: with one
\* Poller there are more urls than Pollers and the Resources compete for it.
LiveUrls == {urls[1], urls[2]}

InitLive ==
    /\ \E n \in 1..numPollers : InitWith(n, SubSeq(urls, 1, Cardinality(LiveUrls)))
    /\ NoExercise

\* ------------------------------------------------- seeding without goroutine
\* The variant the source explains away (lines 118-124): main itself sends
\* the Resources on pending before it enters its loop over complete.  The
\* seeding loop is then main's, and main receives on complete only once the
\* loop is over.

\* The steps of the Pollers, the seeding goroutine, main and the Sleeps.
NextWork ==
    \/ SeedAlloc
    \/ \E p \in Pollers : SeedSend(p)
    \/ \E p \in Pollers, o \in ProbeOutcomes : PollerPoll(p, o)
    \/ \E p \in Pollers : PollerSendStatus(p)
    \/ \E p \in Pollers : PollerSendOut(p)
    \/ \E sl \in BagToSet(sleepers) : SleepWake(sl)
    \/ \E sl \in BagToSet(sleepers), p \in Pollers : SleepSend(sl, p)

\* Every step but the ticker's: those, and the monitor storing a State.
NextNoTick ==
    \/ NextWork
    \/ MonitorUpdate

\* Faulty variant: the seeding loop runs in its own goroutine, main is never in it.
MainSeedingNever == FALSE

\* main is still in its seeding loop.
MainSeeding == seeder.pc # "done"

\* out <- r of Poller p: main must be at "for r := range complete".
PollerSendOutToMain(p) ==
    /\ ~MainSeeding
    /\ PollerSendOut(p)

NextInline ==
    \/ SeedAlloc
    \/ \E p \in Pollers : SeedSend(p)
    \/ \E p \in Pollers, o \in ProbeOutcomes : PollerPoll(p, o)
    \/ \E p \in Pollers : PollerSendStatus(p)
    \/ MonitorUpdate
    \/ MonitorTick
    \/ \E p \in Pollers : PollerSendOutToMain(p)
    \/ \E sl \in BagToSet(sleepers) : SleepWake(sl)
    \/ \E sl \in BagToSet(sleepers), p \in Pollers : SleepSend(sl, p)

\* The steps of the Pollers, of main and of the Sleep goroutines.
NextInlineWork ==
    \/ SeedAlloc
    \/ \E p \in Pollers : SeedSend(p)
    \/ \E p \in Pollers, o \in ProbeOutcomes : PollerPoll(p, o)
    \/ \E p \in Pollers : PollerSendStatus(p)
    \/ \E p \in Pollers : PollerSendOutToMain(p)
    \/ \E sl \in BagToSet(sleepers) : SleepWake(sl)
    \/ \E sl \in BagToSet(sleepers), p \in Pollers : SleepSend(sl, p)

FairnessInline ==
    /\ WF_vars(SeedAlloc)
    /\ SF_vars(\E p \in Pollers : SeedSend(p))
    /\ \A p \in 1..numPollers :
        /\ WF_vars(p \in Pollers /\ \E o \in ProbeOutcomes : PollerPoll(p, o))
        /\ SF_vars(p \in Pollers /\ PollerSendStatus(p))
        /\ WF_vars(p \in Pollers /\ PollerSendOutToMain(p))
    /\ WF_vars(MonitorUpdate)
    /\ SF_vars(MonitorTick)
    /\ \A r \in 1..Len(urls) :
        /\ WF_vars(\E sl \in BagToSet(sleepers) : sl.r = r /\ SleepWake(sl))
        /\ SF_vars(\E sl \in BagToSet(sleepers), p \in Pollers :
                      sl.r = r /\ SleepSend(sl, p))

\* One Poller or two, one to three urls: fewer, as many and more urls than
\* Pollers.
SpecInline == InitSized /\ [][NextInline]_vars /\ FairnessInline

SpecLive == InitLive /\ [][Next]_vars /\ Fairness

\* ShareMemory as configured (numPollers Pollers, the three urls), every
\* url up, under fair scheduling.
SpecAllUp == Init /\ [][NextAllUp]_vars /\ Fairness


\* ShareMemory is not running: no Poller, no url, nothing to seed.
NoPipeline == InitWith(0, << >>)

\* ================================================================ Stringers
\* unnamed/part_001: type IPAddr [4]byte and its String method.

MaxByte == 255

\* The receivers explored: four bytes, each one of these.
ByteSamples == {0, 1, 2, 3, 4, 10, 127, MaxByte}

Digits == << "0", "1", "2", "3", "4", "5", "6", "7", "8", "9" >>

\* The verb %v on a byte: its decimal digits, most significant first, as
\* a sequence of characters.
RECURSIVE FormatUint(_)
FormatUint(n) ==
    IF n < 10 THEN << Digits[n + 1] >>
    ELSE Append(FormatUint(n \div 10), Digits[(n % 10) + 1])

\* fmt.Sprintf("%v:%v:%v:%v", ip[0], ip[1], ip[2], ip[3])
IPAddrString(a) ==
    FormatUint(a[1]) \o << ":" >> \o FormatUint(a[2]) \o << ":" >>
        \o FormatUint(a[3]) \o << ":" >> \o FormatUint(a[4])

InitStringer ==
    /\ NoPipeline
    /\ ip \in [pc : {"call"}, ip : [1..4 -> ByteSamples]]
    /\ same = NotCalled
    /\ fib = NotCalled
    /\ sq = NotCalled
    /\ nap = NotCalled
    /\ list = NotCalled

\* ip.String() returns.
StringerReturn ==
    /\ ip.pc = "call"
    /\ ip' = [pc |-> "ret", ip |-> ip.ip, s |-> IPAddrString(ip.ip)]
    /\ UNCHANGED << prog, hist, same, fib, sq, nap, list >>

NextStringer == StringerReturn

SpecStringer == InitStringer /\ [][NextStringer]_vars

\* =================================================================== Errors
\* gotour/errorexamples/exercise_error.go: ErrNegativeSqrt and Sqrt.
\* A float64 is a fixed-point number of quarters ([k |-> "num", v |-> n]
\* is n/4) or one of NaN, +Inf, -Inf.

\* Quarters in one unit.
Scale == 4

\* The largest magnitude explored, in quarters.
MaxQuarters == 60

NaN == [k |-> "nan", v |-> 0]

PosInf == [k |-> "inf", v |-> 1]

NegInf == [k |-> "inf", v |-> -1]

Float(n) == [k |-> "num", v |-> n]

Floats == {Float(n) : n \in -MaxQuarters..MaxQuarters} \cup {NaN, PosInf, NegInf}

\* The nil error.
Nil == [type |-> "nil"]

\* x > 0 on float64: false on NaN.
GreaterThanZero(x) ==
    CASE x.k = "num" -> x.v > 0
      [] x.k = "inf" -> x.v > 0
      [] x.k = "nan" -> FALSE

\* math.Sqrt on a positive float64: the root rounded to the nearest
\* representable number (here: quarter); Sqrt(+Inf) = +Inf.
MathSqrt(x) ==
    IF x.k = "inf" THEN PosInf
    ELSE Float(CHOOSE r \in 0..(Scale * x.v) :
                   /\ (2 * r - 1) * (2 * r - 1) <= 4 * Scale * x.v
                   /\ 4 * Scale * x.v < (2 * r + 1) * (2 * r + 1))

\* The conversion ErrNegativeSqrt(x) as an error value.
ErrNegativeSqrt(x) == [type |-> "ErrNegativeSqrt", x |-> x]

\* Sqrt(x): the pair it returns.
Sqrt(x) ==
    IF GreaterThanZero(x)
    THEN [val |-> MathSqrt(x), err |-> Nil]
    ELSE [val |-> Float(0), err |-> ErrNegativeSqrt(x)]

InitSqrt ==
    /\ NoPipeline
    /\ sq \in [pc : {"call"}, x : Floats]
    /\ nap = NotCalled
    /\ list = NotCalled
    /\ same = NotCalled
    /\ ip = NotCalled
    /\ fib = NotCalled

\* Sqrt(sq.x) returns.
SqrtReturn ==
    /\ sq.pc = "call"
    /\ sq' = [pc |-> "ret", x |-> sq.x, val |-> Sqrt(sq.x).val, err |-> Sqrt(sq.x).err]
    /\ UNCHANGED << prog, hist, same, ip, fib, nap, list >>

NextSqrt == SqrtReturn

SpecSqrt == InitSqrt /\ [][NextSqrt]_vars

\* ======================================================== Fibonacci closure
\* gotour/ioexamples/exercise_reader.go: fibonacci.  An int is IntBits wide
\* and its arithmetic wraps; it is held as IntLimbs digits in base Limb,
\* least significant first, in two's complement.

IntBits == 64

Limb == 2^16

IntLimbs == IntBits \div 16

\* Closures made and calls of one closure explored.
MaxClosures == 2

MaxCalls == 96

\* The int constant n (0 <= n < Limb).
IntOf(n) == [i \in 1..IntLimbs |-> IF i = 1 THEN n ELSE 0]

\* Digit-wise sum of two equally long numerals with carry c: one digit
\* longer than its arguments, the last digit being the carry out.
RECURSIVE AddCarry(_, _, _)
AddCarry(x, y, c) ==
    IF x = << >> THEN << c >>
    ELSE LET t == Head(x) + Head(y) + c
         IN  << t % Limb >> \o AddCarry(Tail(x), Tail(y), t \div Limb)

\* x + y on int: the carry out of the top digit is lost.
AddInt(x, y) == SubSeq(AddCarry(x, y, 0), 1, IntLimbs)

\* fibonacci(): the variables a, b := 1, 0 the returned closure captures;
\* calls counts its calls and ret is what the last one returned.
Fibonacci == [a |-> IntOf(1), b |-> IntOf(0), calls |-> 0, ret |-> IntOf(0)]

\* One call of the closure c: a, b = b, a+b; return a.
FibonacciCall(c) ==
    [a |-> c.b, b |-> AddInt(c.a, c.b), calls |-> c.calls + 1, ret |-> c.b]

InitFib ==
    /\ NoPipeline
    /\ fib = [pc |-> "run", f |-> << >>]
    /\ same = NotCalled
    /\ ip = NotCalled
    /\ sq = NotCalled
    /\ nap = NotCalled
    /\ list = NotCalled

\* f := fibonacci()
FibNew ==
    /\ Len(fib.f) < MaxClosures
    /\ fib' = [fib EXCEPT !.f = Append(@, Fibonacci)]
    /\ UNCHANGED << prog, hist, same, ip, sq, nap, list >>

\* f() on the i-th closure made.
FibCall(i) ==
    /\ fib.f[i].calls < MaxCalls
    /\ fib' = [fib EXCEPT !.f[i] = FibonacciCall(@)]
    /\ UNCHANGED << prog, hist, same, ip, sq, nap, list >>

NextFib ==
    \/ FibNew
    \/ \E i \in 1..Len(fib.f) : FibCall(i)

SpecFib == InitFib /\ [][NextFib]_vars

\* ================================================= Equivalent binary trees
\* unnamed/part_005: Walk and Same.

\* ========================================================= Sleep durations
\* gotour/idiomaticgo: the argument of time.Sleep in (r *Resource).Sleep
\* as the time.Duration (an int64 count of nanoseconds) the program
\* computes, for a Resource whose polls keep failing.

\* time.Second as a Duration.
Second == 1000000000

\* The multiplier is taken in digits of this size, so that a digit times a
\* digit of an int stays a small number.
Digit == 2^14

\* Consecutive failed polls explored, and the errCount a long run of
\* failures starts from.
MaxNaps == 40

LongRun == 922337178

\* Digit-wise product of a numeral and d <= Digit with carry c: one digit
\* longer than x, the last digit being the carry out.
RECURSIVE MulCarry(_, _, _)
MulCarry(x, d, c) ==
    IF x = << >> THEN << c >>
    ELSE LET t == Head(x) * d + c
         IN  << t % Limb >> \o MulCarry(Tail(x), d, t \div Limb)

\* x * n on int64, n >= 0: what does not fit in 64 bits is lost.
RECURSIVE MulInt(_, _)
MulInt(x, n) ==
    IF n = 0 THEN IntOf(0)
    ELSE AddInt(SubSeq(MulCarry(x, n % Digit, 0), 1, IntLimbs),
                SubSeq(MulCarry(MulInt(x, n \div Digit), Digit, 0), 1, IntLimbs))

\* time.Duration(n), n >= 0.
Duration(n) == MulInt(IntOf(1), n)

\* pollInterval + errTimeout*time.Duration(r.errCount), with
\* pollInterval = 60 * time.Second and errTimeout = 10 * time.Second.
SleepArgument(errCount) ==
    AddInt(MulInt(Duration(Second), pollInterval),
           MulInt(MulInt(Duration(Second), errTimeout), errCount))

\* A Resource with errCount failed polls behind it, about to Sleep.
InitSleep ==
    /\ NoPipeline
    /\ nap \in {[pc |-> "Sleep", errCount |-> c, polls |-> 0] : c \in {0, LongRun}}
    /\ same = NotCalled
    /\ ip = NotCalled
    /\ fib = NotCalled
    /\ sq = NotCalled
    /\ list = NotCalled

\* time.Sleep(pollInterval + errTimeout*time.Duration(r.errCount))
NapSleep ==
    /\ nap.pc = "Sleep"
    /\ nap' = [pc |-> "Poll", errCount |-> nap.errCount, polls |-> nap.polls,
               d |-> SleepArgument(nap.errCount)]
    /\ UNCHANGED << prog, hist, same, ip, fib, sq, list >>

\* The Resource comes back to a Poller and its Poll fails: r.errCount++
NapPoll ==
    /\ nap.pc = "Poll"
    /\ nap.polls < MaxNaps
    /\ nap' = [pc |-> "Sleep", errCount |-> nap.errCount + 1,
               polls |-> nap.polls + 1]
    /\ UNCHANGED << prog, hist, same, ip, fib, sq, list >>

NextSleep ==
    \/ NapSleep
    \/ NapPoll

SpecSleep == InitSleep /\ [][NextSleep]_vars

\* ============================================================ Generic List
\* gotour/sortingseraching/sortfunc_example.go: List[T], Push and Pop, with
\* T = int.  A heap h holds the Lists and the Nodes made so far:
\* h.lists[l] = [head], a Node or nil, and h.nodes[n] = [next, elem], next a
\* List.

\* The largest int pushed, and the Push calls explored.
MaxElem == 2

MaxPush == 4

\* The nil *Node.
NilNode == 0

\* The zero value of int.
ZeroInt == 0

\* fmt.Errorf("can't pop from an empty list"), and the nil error.
ErrEmptyList == "can't pop from an empty list"

NilError == "nil"

\* new(List[T]) on heap h: the new List has a nil head and is the last.
NewList(h) == [h EXCEPT !.lists = Append(@, [head |-> NilNode])]

\* NewNode(val) on heap h: the new Node holds val, its next is nil (0).
NewNode(h, val) == [h EXCEPT !.nodes = Append(@, [next |-> 0, elem |-> val])]

\* Faulty variant: Push leaves out "l.head = lst.head", the new Node's
\* next is an empty List.
PushAlone(h, lst, elem) ==
    LET h1 == NewList(h)
        l  == Len(h1.lists)
        h3 == NewNode(h1, elem)
        n  == Len(h3.nodes)
        h4 == [h3 EXCEPT !.nodes[n].next = l]
    IN  [h4 EXCEPT !.lists[lst].head = n]

\* (lst *List[T]).Push(elem): the heap after the call.
Push(h, lst, elem) ==
    LET h1 == NewList(h)
        l  == Len(h1.lists)
        h2 == [h1 EXCEPT !.lists[l].head = h.lists[lst].head]
        h3 == NewNode(h2, elem)
        n  == Len(h3.nodes)
        h4 == [h3 EXCEPT !.nodes[n].next = l]
    IN  [h4 EXCEPT !.lists[lst].head = n]

\* Faulty variant: Pop leaves out "lst.head = n.next.head".
PopKeeps(h, lst) ==
    IF h.lists[lst].head = NilNode
    THEN [h |-> h, elem |-> ZeroInt, err |-> ErrEmptyList]
    ELSE LET n == h.lists[lst].head
         IN  [h |-> h, elem |-> h.nodes[n].elem, err |-> NilError]

\* (lst *List[T]).Pop(): the heap after the call and the two results.
Pop(h, lst) ==
    IF h.lists[lst].head = NilNode
    THEN [h |-> h, elem |-> ZeroInt, err |-> ErrEmptyList]
    ELSE LET n == h.lists[lst].head
         IN  [h |-> [h EXCEPT !.lists[lst].head = h.lists[h.nodes[n].next].head],
              elem |-> h.nodes[n].elem, err |-> NilError]

\* lst := NewList[int](): lst is the first List of the heap.  ret is what
\* the last call returned, pushed (history) the elements pushed and not
\* yet popped, oldest first.
InitList ==
    /\ NoPipeline
    /\ list = [pc |-> "run", h |-> NewList([lists |-> << >>, nodes |-> << >>]),
               lst |-> 1, ret |-> [op |-> "NewList"], pushed |-> << >>]
    /\ same = NotCalled
    /\ ip = NotCalled
    /\ fib = NotCalled
    /\ sq = NotCalled
    /\ nap = NotCalled

\* lst.Push(elem)
ListPush(elem) ==
    /\ Len(list.h.nodes) < MaxPush
    /\ list' = [list EXCEPT !.h = Push(list.h, list.lst, elem),
                            !.ret = [op |-> "Push"],
                            !.pushed = Append(@, elem)]
    /\ UNCHANGED << prog, hist, same, ip, fib, sq, nap >>

\* x, err := lst.Pop()
ListPop ==
    /\ LET res == Pop(list.h, list.lst)
       IN  list' = [list EXCEPT !.h = res.h,
                                !.ret = [op |-> "Pop", elem |-> res.elem, err |-> res.err],
                                !.pushed = IF @ = << >> THEN @ ELSE SubSeq(@, 1, Len(@) - 1)]
    /\ UNCHANGED << prog, hist, same, ip, fib, sq, nap >>

NextList ==
    \/ \E elem \in 0..MaxElem : ListPush(elem)
    \/ ListPop

SpecList == InitList /\ [][NextList]_vars

\* Values a tree holds at most, and the largest value.
MaxNodes == 3

MaxValue == 4

\* The nil *Tree.
NilTree == [nil |-> TRUE]

\* The strictly ascending sequences over S.
RECURSIVE Ascending(_)
Ascending(S) ==
    IF S = {} THEN {<< >>}
    ELSE LET m == CHOOSE x \in S : \A y \in S : y <= x
             A == Ascending(S \ {m})
         IN  A \cup {Append(a, m) : a \in A}

\* The trees whose values, left to right, are the sequence vs: every shape
\* a sorted tree of these values can have.
RECURSIVE TreesOf(_)
TreesOf(vs) ==
    IF vs = << >> THEN {NilTree}
    ELSE UNION {
            {[Left |-> l, Value |-> vs[i], Right |-> r] :
                l \in TreesOf(SubSeq(vs, 1, i - 1)),
                r \in TreesOf(SubSeq(vs, i + 1, Len(vs)))}
            : i \in 1..Len(vs)}

Trees ==
    UNION {TreesOf(vs) : vs \in {a \in Ascending(1..MaxValue) : Len(a) <= MaxNodes}}

\* The calls of Walk on the stack of a walking goroutine that have yet to
\* send their t.Value, innermost last, once Walk(t, ch) has been called
\* below the calls in stack: Walk descends through t.Left until t is nil.
RECURSIVE Descend(_, _)
Descend(t, stack) ==
    IF t = NilTree THEN stack ELSE Descend(t.Left, Append(stack, t))

\* Faulty variant: the comparing goroutine reports true at the first pair of equal
\* values ("result <- true" inside the loop).
CompareEarlyTrue(c, v2, size) ==
    IF c.v # v2
    THEN [cmp |-> [pc |-> "done", i |-> c.i, v |-> 0], result |-> << FALSE >>]
    ELSE [cmp |-> [pc |-> "done", i |-> c.i + 1, v |-> 0], result |-> << TRUE >>]

\* The comparing goroutine c, having received c.v from ch1, receives v2 from
\* ch2: on a difference it sends false and returns, else i++.
Compare(c, v2, size) ==
    IF c.v # v2
    THEN [cmp |-> [pc |-> "done", i |-> c.i, v |-> 0], result |-> << FALSE >>]
    ELSE [cmp |-> [pc |-> "loop", i |-> c.i + 1, v |-> 0], result |-> << >>]

\* Same(t1, t2, size) has made ch1, ch2 and result and started the two
\* Walk goroutines and the comparing goroutine.
SameCalled(t1, t2, size) ==
    [pc |-> "run", t |-> << t1, t2 >>, size |-> size,
     ch |-> << << >>, << >> >>,
     walk |-> << Descend(t1, << >>), Descend(t2, << >>) >>,
     cmp |-> [pc |-> "loop", i |-> 0, v |-> 0],
     result |-> << >>]

InitSame ==
    /\ NoPipeline
    /\ same \in {SameCalled(t1, t2, size) : t1 \in Trees, t2 \in Trees, size \in 0..MaxNodes}
    /\ ip = NotCalled
    /\ fib = NotCalled
    /\ sq = NotCalled
    /\ nap = NotCalled
    /\ list = NotCalled

\* ch <- t.Value in the Walk goroutine w: the channel has room (it holds
\* fewer than size values).  Walk(t.Right, ch) follows.
WalkSend(w) ==
    /\ same.pc = "run"
    /\ same.walk[w] # << >>
    /\ Len(same.ch[w]) < same.size
    /\ LET t == Last(same.walk[w])
       IN  same' = [same EXCEPT
                      !.ch[w] = Append(@, t.Value),
                      !.walk[w] = Descend(t.Right, SubSeq(@, 1, Len(@) - 1))]
    /\ UNCHANGED << prog, hist, ip, fib, sq, nap, list >>

\* The loop test "i < size" of the comparing goroutine; past the loop,
\* result <- true (result has room for it).
CompareLoop ==
    /\ same.pc = "run"
    /\ same.cmp.pc = "loop"
    /\ same' = IF same.cmp.i < same.size
               THEN [same EXCEPT !.cmp.pc = "recv1"]
               ELSE [same EXCEPT !.cmp.pc = "done", !.result = << TRUE >>]
    /\ UNCHANGED << prog, hist, ip, fib, sq, nap, list >>

\* <-ch1, the left operand of "!=".
CompareRecv1 ==
    /\ same.pc = "run"
    /\ same.cmp.pc = "recv1"
    /\ same.ch[1] # << >>
    /\ same' = [same EXCEPT !.cmp.pc = "recv2", !.cmp.v = Head(same.ch[1]),
                            !.ch[1] = Tail(@)]
    /\ UNCHANGED << prog, hist, ip, fib, sq, nap, list >>

\* <-ch2, the right operand, and the comparison.
CompareRecv2 ==
    /\ same.pc = "run"
    /\ same.cmp.pc = "recv2"
    /\ same.ch[2] # << >>
    /\ LET c == Compare(same.cmp, Head(same.ch[2]), same.size)
       IN  same' = [same EXCEPT !.cmp = c.cmp, !.result = c.result, !.ch[2] = Tail(@)]
    /\ UNCHANGED << prog, hist, ip, fib, sq, nap, list >>

\* return <-result
SameReturn ==
    /\ same.pc = "run"
    /\ same.result # << >>
    /\ same' = [pc |-> "ret", t |-> same.t, size |-> same.size, ret |-> Head(same.result)]
    /\ UNCHANGED << prog, hist, ip, fib, sq, nap, list >>

NextSame ==
    \/ \E w \in 1..2 : WalkSend(w)
    \/ CompareLoop
    \/ CompareRecv1
    \/ CompareRecv2
    \/ SameReturn

SpecSame == InitSame /\ [][NextSame]_vars

\* ------------------------------------------------------ where a Resource is

\* How many Sleep goroutines of the bag B hold Resource r at pc.
SleepersIn(B, r, pc) ==
    LET S == {sl \in BagToSet(B) : sl.r = r /\ sl.pc = pc}
    IN  BagCardinality([sl \in S |-> CopiesIn(sl, B)])

SleepersAt(r, pc) == SleepersIn(sleepers, r, pc)

\* How many Pollers at one of the pcs hold Resource r.
PollersAt(r, pcs) ==
    Cardinality({p \in Pollers : poller[p].r = r /\ poller[p].pc \in pcs})

\* Offered on pending: by the seeding goroutine or by a Sleep at its send.
OnPending(r) ==
    (IF seeder.pc = "send" /\ seeder.r = r THEN 1 ELSE 0) + SleepersAt(r, "send")

\* In a Poller's possession: being probed or reported.
InPoller(r) == PollersAt(r, {"poll", "status"})

\* Being handed over on complete: the Poller is at its send on out.
OnCompleted(r) == PollersAt(r, {"out"})

\* Inside a delay wait.
InDelay(r) == SleepersAt(r, "sleep")

\* Every reference to r held by any goroutine, whatever its pc.
Holders(r) ==
    (IF seeder.r = r THEN 1 ELSE 0)
    + Cardinality({p \in Pollers : poller[p].r = r})
    + BagCardinality([sl \in {x \in BagToSet(sleepers) : x.r = r} |-> CopiesIn(sl, sleepers)])

AllUrls == {urls[i] : i \in 1..Len(urls)}

\* ------------------------------------------------------------------ claims

\* C1 (ownership exclusivity, P1): every Resource that has been created is
\* in exactly one of: offered on pending, in a Poller's possession, being
\* handed over on complete, inside a delay wait; and no goroutine holds a
\* reference to it besides that one.
C1_OwnershipExclusive ==
    \A r \in DOMAIN resources :
        /\ OnPending(r) + InPoller(r) + OnCompleted(r) + InDelay(r) = 1
        /\ Holders(r) = 1

\* C1 witness: the three Resources exist and are, at one instant, one on
\* pending (after a delay), one on complete and one in a delay wait.
C1_Witness ==
    /\ Cardinality(DOMAIN resources) = Len(urls)
    /\ \E a, b, c \in DOMAIN resources :
        /\ SleepersAt(a, "send") = 1
        /\ OnCompleted(b) = 1
        /\ InDelay(c) = 1

\* C2 (for every configuration of SpecSized): no two Pollers hold the same
\* Resource at the same time, and while a Poller holds a Resource (from its
\* receive to its send on out) no other goroutine, seeding or Sleep, holds
\* it.
C2_OnePollerPerResource ==
    \A p \in Pollers :
        poller[p].pc \in {"poll", "status", "out"} =>
            LET r == poller[p].r
            IN  /\ r \in DOMAIN resources
                /\ \A q \in Pollers \ {p} : poller[q].r # r
                /\ seeder.r # r
                /\ \A sl \in BagToSet(sleepers) : sl.r # r

\* C2 witness: both Pollers hold a Resource at once, one probing and one
\* blocked on its send of the State, after the Resources have gone round.
C2_Witness ==
    /\ \E p, q \in Pollers : poller[p].pc = "poll" /\ poller[q].pc = "status"
    /\ DOMAIN urlStatus = AllUrls

\* C3 (backpressure, for every configuration of SpecSized): the Resources
\* received from pending by a Poller and not yet accepted by main on
\* complete never number more than the Pollers.
C3_InFlightBound == Cardinality(inflight) <= Cardinality(Pollers)

\* C3 witness: the bound is met while another Resource waits on pending.
C3_Witness ==
    /\ Cardinality(inflight) = Cardinality(Pollers)
    /\ Cardinality(DOMAIN resources) > Cardinality(Pollers)
    /\ \E r \in DOMAIN resources : r \notin inflight /\ OnPending(r) = 1

\* C4 (single writer, P4): once the monitor has stored every State built so
\* far, urlStatus holds for every probed url the status of the last State
\* built for it, and nothing for a url not yet probed.
C4_LastStatusWins ==
    (\A r \in DOMAIN emitted : emitted[r] = << >>) =>
        /\ DOMAIN urlStatus = DOMAIN last
        /\ \A u \in DOMAIN last : urlStatus[u] = last[u]

\* C4 witness: everything is stored, every url has a status, two urls
\* differ, and one url has been reported at least twice.
C4_Witness ==
    /\ \A r \in DOMAIN emitted : emitted[r] = << >>
    /\ DOMAIN urlStatus = AllUrls
    /\ \E u, v \in DOMAIN urlStatus : urlStatus[u] # urlStatus[v]
    /\ \E r \in DOMAIN resources : resources[r].errCount = 2

\* C5 (FIFO per endpoint): the State the monitor is about to store is the
\* oldest State of its url that a probe has built and the monitor has not
\* yet stored.
C5_PerEndpointFifo ==
    monitor.pc = "update" =>
        \E r \in DOMAIN emitted :
            /\ emitted[r] # << >>
            /\ Head(emitted[r]) = [by |-> monitor.from, url |-> monitor.s.url,
                                   status |-> monitor.s.status]

\* C5 witness: two States of one url, built by different Pollers and with
\* different statuses, are both unstored, and the monitor holds the older.
C5_Witness ==
    /\ monitor.pc = "update"
    /\ \E r \in DOMAIN emitted :
        /\ Len(emitted[r]) = 2
        /\ emitted[r][1].by # emitted[r][2].by
        /\ emitted[r][1].status # emitted[r][2].status
        /\ emitted[r][1].by = monitor.from
        /\ emitted[r][1].url = monitor.s.url

\* C6 (probe outcome): a step in which Poller p returns from r.Poll(), with
\* o the answer http.Head gave, leaves r.url as it was and returns o's text;
\* on a response it sets r.errCount to 0 and on an error it adds exactly 1.
C6_PollStep ==
    \A p \in Pollers :
        (poller[p].pc = "poll" /\ poller'[p] # poller[p]) =>
            LET r == poller[p].r
                o == Last(run'[r])
            IN  /\ resources'[r].url = resources[r].url
                /\ poller'[p].s = o.text
                /\ poller'[p].r = r
                /\ o.err => resources'[r].errCount = resources[r].errCount + 1
                /\ ~o.err => resources'[r].errCount = 0

\* C6: every step satisfies the probe outcome above.
C6_ProbeOutcome == [][C6_PollStep]_vars

\* C6 witness: a probe has just succeeded after two failures and the
\* counter is back at 0; another Resource's probe has just failed.
C6_Witness ==
    \E p, q \in Pollers :
        /\ poller[p].pc = "status" /\ poller[q].pc = "status"
        /\ Len(run[poller[p].r]) = 3
        /\ ~Last(run[poller[p].r]).err
        /\ resources[poller[p].r].errCount = 0
        /\ Last(run[poller[q].r]).err
        /\ resources[poller[q].r].errCount = 1

\* C7 (backoff, P2): every Sleep waits pollInterval + errTimeout * k, k the
\* errCount of the Resource it was handed, and k is still the Resource's
\* errCount while it waits; the Sleep that follows a successful probe waits
\* pollInterval.
C7_Backoff ==
    /\ \A sl \in BagToSet(sleepers) :
           sl.d = pollInterval + errTimeout * resources[sl.r].errCount
    /\ \A r \in DOMAIN delays : \A i \in 1..Len(delays[r]) :
           /\ delays[r][i].d = pollInterval + errTimeout * delays[r][i].k
           /\ ~run[r][i].err => delays[r][i].d = pollInterval

\* C7 witness: a Resource waits pollInterval after a success that followed
\* a failure whose wait was longer.
C7_Witness ==
    \E sl \in BagToSet(sleepers) :
        /\ sl.pc = "sleep"
        /\ sl.d = pollInterval
        /\ Len(delays[sl.r]) >= 2
        /\ delays[sl.r][1].d = pollInterval + errTimeout
        /\ Last(delays[sl.r]).d = pollInterval

\* C8 (scenario B): when the probes of a Resource, counting from errCount 0,
\* fail, fail and succeed, the three Sleeps started for it see errCount 1,
\* 2, 0 and wait pollInterval + errTimeout, pollInterval + 2 * errTimeout,
\* pollInterval.
C8_ScenarioB ==
    \A r \in DOMAIN run :
        (/\ Len(run[r]) = 3
         /\ run[r][1].err /\ run[r][2].err /\ ~run[r][3].err) =>
            \A i \in 1..Len(delays[r]) :
                delays[r][i] =
                    << [k |-> 1, d |-> pollInterval + errTimeout],
                       [k |-> 2, d |-> pollInterval + 2 * errTimeout],
                       [k |-> 0, d |-> pollInterval] >>[i]

\* C8 witness: a Resource has failed twice and succeeded, the third Sleep
\* is under way, and the other Resources have been probed in between.
C8_Witness ==
    \E r \in DOMAIN run :
        /\ Len(run[r]) = 3 /\ ~run[r][3].err
        /\ Len(delays[r]) = 3
        /\ InDelay(r) = 1
        /\ \A x \in DOMAIN run : x # r => Len(run[x]) >= 1

\* C9 (idempotent snapshot, P3): two snapshots logged with no State stored
\* between them are the same map.
C9_IdempotentSnapshot == Len(logs) = 2 => logs[1] = logs[2]

\* C9 witness: two such snapshots of a map that holds every url.
C9_Witness == Len(logs) = 2 /\ DOMAIN logs[2] = AllUrls

\* C10 (a failed probe is data): no Poller and no monitor is anywhere but
\* in its loop; a Poller whose probe failed is at its send of the State,
\* holding the Resource and the error text, and that send, the monitor's
\* store and the hand-over to main can each be taken when the monitor (or
\* main, always) is at its receive.
C10_Running ==
    /\ monitor.pc \in {"select", "update"}
    /\ monitor.pc = "update" => ENABLED MonitorUpdate
    /\ \A p \in Pollers :
        /\ poller[p].pc \in {"recv", "poll", "status", "out"}
        /\ poller[p].pc = "recv" => poller[p] = IdlePoller
        /\ poller[p].pc = "status" =>
              /\ poller[p].s = Last(run[poller[p].r]).text
              /\ Last(emitted[poller[p].r]).status = poller[p].s
              /\ monitor.pc = "select" => ENABLED PollerSendStatus(p)
        /\ poller[p].pc = "out" => ENABLED PollerSendOut(p)

\* C10, steps: a Poller leaves its send of the State only by handing
\* exactly that State to the monitor, then stands at its send on out with
\* the same Resource; it leaves that send only with the Resource in a new
\* Sleep, and is then back at its receive on pending.
C10_Steps ==
    \A p \in Pollers :
        LET r == poller[p].r
        IN  /\ (poller[p].pc = "status" /\ poller'[p] # poller[p]) =>
                  /\ monitor' = [pc |-> "update", from |-> p,
                                 s |-> [url |-> resources[r].url, status |-> poller[p].s]]
                  /\ poller'[p] = [poller[p] EXCEPT !.pc = "out"]
            /\ (poller[p].pc = "out" /\ poller'[p] # poller[p]) =>
                  /\ poller'[p] = IdlePoller
                  /\ SleepersIn(sleepers', r, "sleep") = 1
                  /\ resources'[r] = resources[r]

\* C10: the two parts above, in every state and at every step.
C10_FailureIsData == []C10_Running /\ [][C10_Steps]_vars

\* C10 witness: a Resource has failed MaxErrCount times in a row, its error
\* text is in urlStatus, it is in a delay wait, and every Poller is back at
\* its receive with the monitor at its select.
C10_Witness ==
    /\ \A p \in Pollers : poller[p] = IdlePoller
    /\ monitor = IdleMonitor
    /\ \E r \in DOMAIN resources :
        /\ resources[r].errCount = MaxErrCount
        /\ Len(run[r]) = MaxErrCount
        /\ InDelay(r) = 1
        /\ resources[r].url \in DOMAIN urlStatus
        /\ urlStatus[resources[r].url] = Last(run[r]).text

\* C11 (seeding does not deadlock): under fair scheduling the seeding
\* goroutine, with more urls than Pollers to hand them to, completes every
\* one of its sends on pending and returns, and every url it was given is
\* probed at least once.
C11_SeedingCompletes ==
    /\ <>(seeder.pc = "done")
    /\ \A u \in AllUrls :
        (\E i \in 1..Len(seeder.todo) : seeder.todo[i] = u) ~> (u \in DOMAIN last)

\* C11 witness: more Resources than Pollers were made, the seeding goroutine
\* has returned and each url has a probe behind it.
C11_Witness ==
    /\ seeder.pc = "done"
    /\ Cardinality(DOMAIN resources) > Cardinality(Pollers)
    /\ \A r \in DOMAIN resources : resources[r].url \in DOMAIN last

\* C12 (scenario C, no Pollers): when no Poller was started the seeding
\* goroutine never gets past its first send: every url it was given is still
\* to be sent, at most the first Resource exists, no Poller has received a
\* Resource, main has received none (no Sleep goroutine exists), no State
\* was built or received, and urlStatus, with every snapshot of it, is empty.
C12_NoPollers ==
    Pollers = {} =>
        /\ seeder.pc \in {"alloc", "send"}
        /\ {seeder.todo[i] : i \in 1..Len(seeder.todo)} = DOMAIN ahead
        /\ Cardinality(DOMAIN resources) <= 1
        /\ inflight = {}
        /\ sleepers = EmptyBag
        /\ last = << >>
        /\ \A r \in DOMAIN emitted : emitted[r] = << >>
        /\ \A u \in DOMAIN ahead : ahead[u] = 0
        /\ monitor = IdleMonitor
        /\ urlStatus = << >>
        /\ \A i \in 1..Len(logs) : logs[i] = << >>

\* C12 witness: no Poller exists, the seeding goroutine is at its first
\* send with a second url waiting, and the ticker has fired twice meanwhile.
C12_Witness ==
    /\ Pollers = {}
    /\ seeder.pc = "send"
    /\ Len(seeder.todo) = 2
    /\ Len(logs) = 2

\* C13 (scenario A, three urls, two Pollers, every probe answered "200 OK"):
\* every snapshot logged once urlStatus holds a status of each of the three
\* urls maps each url to "200 OK" and nothing else, and under fair
\* scheduling such a snapshot is eventually logged.
C13_ScenarioA ==
    /\ [](\A i \in 1..Len(logs) :
            DOMAIN logs[i] = AllUrls => logs[i] = [u \in AllUrls |-> "200 OK"])
    /\ <>(logs # << >> /\ DOMAIN Last(logs) = AllUrls)

\* C13 witness: two snapshots in a row that hold the three urls, each
\* with "200 OK", while the Resources go on cycling.
C13_Witness ==
    /\ Len(logs) = 2
    /\ \A i \in 1..2 : logs[i] = [u \in AllUrls |-> "200 OK"]
    /\ \E p \in Pollers : poller[p].pc = "poll"

\* C14 (frame of urlStatus): a step that changes urlStatus is the monitor
\* storing the State it received, no other goroutine moves in it, and it
\* changes the entry of that State's url only, to that State's status; a
\* tick (a snapshot is logged) and every step of a Poller, a Sleep, the
\* seeding goroutine or main leave urlStatus as it was.
C14_Step ==
    /\ urlStatus' # urlStatus =>
        /\ monitor.pc = "update"
        /\ monitor'.pc = "select"
        /\ DOMAIN urlStatus' = DOMAIN urlStatus \cup {monitor.s.url}
        /\ urlStatus'[monitor.s.url] = monitor.s.status
        /\ \A u \in DOMAIN urlStatus \ {monitor.s.url} : urlStatus'[u] = urlStatus[u]
        /\ UNCHANGED << resources, seeder, poller, sleepers >>
    /\ (logs' # logs /\ logs' # << >>) => urlStatus' = urlStatus
    /\ << resources, seeder, poller, sleepers >>' # << resources, seeder, poller, sleepers >>
        => urlStatus' = urlStatus

C14_StatusTableFrame == [][C14_Step]_vars

\* C14 witness: urlStatus holds the three urls with differing statuses
\* (entries were set one by one), two ticks have logged it since, and a
\* Poller, a Sleep and main have moved meanwhile.
C14_Witness ==
    /\ DOMAIN urlStatus = AllUrls
    /\ \E u, v \in AllUrls : urlStatus[u] # urlStatus[v]
    /\ Len(logs) = 2
    /\ logs[2] = urlStatus
    /\ \E p \in Pollers : poller[p].pc = "status"
    /\ \E sl \in BagToSet(sleepers) : sl.pc = "send"

\* C20 (Poller step order): a Poller comes to offer its Resource on
\* complete only by the step in which the monitor receives the State of that
\* probe from it; it comes back to its receive on pending only by the step
\* in which main accepts that Resource; and it takes a Resource from pending
\* only from there.  Hence, for each url, the States the monitor has received
\* minus the Resources main has received is always 0 or 1.
C20_Order ==
    \A p \in Pollers :
        /\ (poller'[p].pc = "out" /\ poller[p].pc # "out") =>
            /\ poller[p].pc = "status"
            /\ monitor.pc = "select"
            /\ monitor' = [pc |-> "update",
                           s |-> [url |-> resources[poller[p].r].url,
                                  status |-> poller[p].s],
                           from |-> p]
            /\ poller'[p].r = poller[p].r
        /\ (poller'[p].pc = "recv" /\ poller[p].pc # "recv") =>
            /\ poller[p].pc = "out"
            /\ SleepersIn(sleepers', poller[p].r, "sleep") = 1
        /\ (poller'[p].pc = "poll" /\ poller[p].pc # "poll") =>
            /\ poller[p].pc = "recv"
            /\ OnPending(poller'[p].r) = 1

C20_Difference ==
    \A u \in DOMAIN ahead :
        /\ ahead[u] \in {0, 1}
        /\ ahead[u] = 1 <=>
            \E p \in Pollers : poller[p].pc = "out" /\ resources[poller[p].r].url = u

C20_PollerStepOrder == []C20_Difference /\ [][C20_Order]_vars

\* C20 witness: at one instant one url is a State ahead (its Poller is at
\* the send on complete, the monitor still holds its State) while another
\* url, probed and handed back more than once already, is level.
C20_Witness ==
    \E p, q \in Pollers :
        /\ poller[p].pc = "out"
        /\ ahead[resources[poller[p].r].url] = 1
        /\ monitor.pc = "update" /\ monitor.from = p
        /\ poller[q].pc = "status"
        /\ ahead[resources[poller[q].r].url] = 0
        /\ resources[poller[q].r].errCount = 2

\* C15 (perpetual cycling): under fair scheduling, with at least one
\* Poller, every url ShareMemory was given is probed again and again for
\* ever: its Resource is never lost and is never kept waiting on pending for
\* ever by the other Resources.
C15_PerpetualCycling ==
    \A u \in LiveUrls :
        []<><<\E p \in Pollers, o \in ProbeOutcomes :
                  PollerPoll(p, o) /\ resources[poller[p].r].url = u>>_vars

\* C15 witness: a single Poller serves two Resources; each has been probed
\* twice already, one is about to be probed a third time while the other
\* waits on pending.
C15_Witness ==
    /\ Cardinality(Pollers) = 1
    /\ Cardinality(DOMAIN resources) = 2
    /\ \A r \in DOMAIN resources : resources[r].errCount = 2
    /\ \E p \in Pollers : poller[p].pc = "poll"
    /\ \E sl \in BagToSet(sleepers) : sl.pc = "send"

\* The fields of the character sequence s between the separators sep.
RECURSIVE Split(_, _)
Split(s, sep) ==
    IF \A i \in 1..Len(s) : s[i] # sep THEN << s >>
    ELSE LET k == CHOOSE i \in 1..Len(s) :
                      s[i] = sep /\ \A j \in 1..(i - 1) : s[j] # sep
         IN  << SubSeq(s, 1, k - 1) >> \o Split(SubSeq(s, k + 1, Len(s)), sep)

\* The number a sequence of digit characters denotes.
RECURSIVE ParseUint(_)
ParseUint(f) ==
    IF f = << >> THEN 0
    ELSE 10 * ParseUint(SubSeq(f, 1, Len(f) - 1))
         + ((CHOOSE d \in 1..10 : Digits[d] = f[Len(f)]) - 1)

\* f is the decimal numeral of n: digits only, no leading zero.
IsDecimalOf(f, n) ==
    /\ f # << >>
    /\ \A i \in 1..Len(f) : \E d \in 1..10 : Digits[d] = f[i]
    /\ Len(f) > 1 => f[1] # "0"
    /\ ParseUint(f) = n

\* C17 (IPAddr.String renders a dotted quad): the string returned for the
\* address {a, b, c, d} is the decimal numerals of a, b, c and d, in that
\* order, separated by '.'.
C17_DottedQuad ==
    ip.pc = "ret" =>
        LET f == Split(ip.s, ".")
        IN  /\ Len(f) = 4
            /\ \A i \in 1..4 : IsDecimalOf(f[i], ip.ip[i])

\* x < 0 on float64.
IsNegative(x) == x.k \in {"num", "inf"} /\ x.v < 0

\* r is the square root of x, to the nearest quarter.
IsRootOf(r, x) ==
    IF x.k = "inf" THEN r = PosInf
    ELSE /\ r.k = "num"
         /\ r.v >= 0
         /\ (2 * r.v - 1) * (2 * r.v - 1) <= 4 * Scale * x.v
         /\ 4 * Scale * x.v < (2 * r.v + 1) * (2 * r.v + 1)

\* C19 (Sqrt error handling): Sqrt returns a non-nil error exactly when its
\* argument is negative, and that error is an ErrNegativeSqrt carrying the
\* argument; for every argument that is zero or positive it returns a nil
\* error together with the square root.
C19_SqrtError ==
    sq.pc = "ret" =>
        /\ sq.err # Nil <=> IsNegative(sq.x)
        /\ sq.err # Nil => sq.err = ErrNegativeSqrt(sq.x)
        /\ (sq.x.k # "nan" /\ ~IsNegative(sq.x)) =>
            /\ sq.err = Nil
            /\ IsRootOf(sq.val, sq.x)

\* Natural numbers of any size: digits in base Limb, least significant
\* first, no leading zero digit (zero is the empty numeral).
PadTo(x, n) == [i \in 1..n |-> IF i <= Len(x) THEN x[i] ELSE 0]

RECURSIVE Strip(_)
Strip(x) ==
    IF x # << >> /\ x[Len(x)] = 0 THEN Strip(SubSeq(x, 1, Len(x) - 1)) ELSE x

AddNat(x, y) ==
    LET n == IF Len(x) > Len(y) THEN Len(x) ELSE Len(y)
    IN  Strip(AddCarry(PadTo(x, n), PadTo(y, n), 0))

\* << F(k), F(k+1) >> of the Fibonacci sequence F(0) = 0, F(1) = 1.
RECURSIVE FibPair(_)
FibPair(k) ==
    IF k = 0 THEN << << >>, << 1 >> >>
    ELSE LET q == FibPair(k - 1) IN << q[2], AddNat(q[1], q[2]) >>

\* The int x is the natural number n: not negative, and the same digits.
IntIsNat(x, n) ==
    /\ x[IntLimbs] < Limb \div 2
    /\ Len(n) <= IntLimbs
    /\ x = PadTo(n, IntLimbs)

\* C18 (Fibonacci closure): the k-th call of a closure returned by
\* fibonacci() returns F(k-1), so 0, 1, 1, 2, 3, 5, ..., whatever the calls
\* made of other closures, and leaves F(k-1) in the closure's a.
C18_Fibonacci ==
    \A i \in 1..Len(fib.f) :
        LET c == fib.f[i]
        IN  c.calls >= 1 =>
                /\ IntIsNat(c.ret, FibPair(c.calls - 1)[1])
                /\ c.a = c.ret

\* The values of t in order: left subtree, value, right subtree.
RECURSIVE InOrder(_)
InOrder(t) ==
    IF t = NilTree THEN << >>
    ELSE InOrder(t.Left) \o << t.Value >> \o InOrder(t.Right)

\* The first n elements of s.
Take(s, n) == SubSeq(s, 1, n)

C21_Step ==
    /\ (logs' # logs /\ logs' # << >>) =>
        /\ monitor.pc = "select"
        /\ monitor' = monitor
        /\ Last(logs') = received
        /\ urlStatus' = urlStatus
        /\ received' = received
    /\ monitor' # monitor => (logs' = logs \/ logs' = << >>)

C21_Snapshots ==
    /\ \A i \in 1..Len(logs) : logs[i] = urlStatus
    /\ monitor.pc = "select" => urlStatus = received
    /\ monitor.pc = "update" => received = MapSet(urlStatus, monitor.s.url, monitor.s.status)

C21_SnapshotAtomicity == []C21_Snapshots /\ [][C21_Step]_vars

\* C21 witness: two snapshots were logged while a Poller stood ready to send
\* a State that differs from the entry of its url; both show the three urls
\* as stored, none shows the State still to come.
C21_Witness ==
    /\ Len(logs) = 2
    /\ DOMAIN logs[2] = AllUrls
    /\ monitor.pc = "select"
    /\ \E p \in Pollers :
        /\ poller[p].pc = "status"
        /\ logs[2][resources[poller[p].r].url] # poller[p].s

\* The States built for Resource r and not yet stored are those the program
\* still holds: one in a Poller about to send it, one in the monitor about
\* to store it, oldest first.
HeldStates(r) ==
    (IF monitor.pc = "update" /\ monitor.s.url = resources[r].url
     THEN << [by |-> monitor.from, url |-> monitor.s.url, status |-> monitor.s.status] >>
     ELSE << >>)
    \o (IF \E p \in Pollers : poller[p].pc = "status" /\ poller[p].r = r
        THEN LET p == CHOOSE q \in Pollers : poller[q].pc = "status" /\ poller[q].r = r
             IN  << [by |-> p, url |-> resources[r].url, status |-> poller[p].s] >>
        ELSE << >>)

\* C22 as stated (exactly-once status delivery): every State built by a
\* probe is held once by the program until it is stored, and at any time,
\* for each url, as many States have been stored in urlStatus as sends on
\* status have completed.
C22_ExactlyOnce ==
    /\ \A r \in DOMAIN resources : emitted[r] = HeldStates(r)
    /\ \A u \in DOMAIN lag : lag[u] = 0

\* C22 amended: every State built by a probe is held once by the program
\* until it is stored, never dropped, doubled or stored twice; for each url
\* the States stored are as many as the sends on status completed, less one
\* exactly while the monitor has received a State of that url and has not
\* yet executed the assignment that stores it.
C22_ExactlyOnceAmended ==
    /\ \A r \in DOMAIN resources : emitted[r] = HeldStates(r)
    /\ \A u \in DOMAIN lag :
        /\ lag[u] \in {0, 1}
        /\ lag[u] = 1 <=> (monitor.pc = "update" /\ monitor.s.url = u)

\* C22 witness: the send of a url's State has completed (its Poller has
\* moved on to the send on complete) and the monitor has yet to store it,
\* the entry of that url still showing the status of an earlier probe.
C22_Witness ==
    \E p \in Pollers :
        /\ poller[p].pc = "out"
        /\ monitor.pc = "update" /\ monitor.from = p
        /\ lag[monitor.s.url] = 1
        /\ monitor.s.url \in DOMAIN urlStatus
        /\ urlStatus[monitor.s.url] # monitor.s.status

\* C23 (frame of a Resource): the url of a Resource never changes; its
\* errCount changes only in the step in which the Poller that holds it
\* runs Poll, and in no step of the seeding goroutine, of a Sleep or of main
\* (the hand-over on complete, the delay, the send on pending).  So a
\* Poller that has received a Resource finds in errCount the number of
\* failed probes the Resource has had in a row.
C23_Step ==
    \A r \in DOMAIN resources :
        /\ r \in DOMAIN resources'
        /\ resources'[r].url = resources[r].url
        /\ resources'[r].errCount # resources[r].errCount =>
            /\ \E p \in Pollers :
                /\ poller[p].pc = "poll" /\ poller[p].r = r
                /\ poller'[p].pc = "status" /\ poller'[p].r = r
            /\ UNCHANGED << seeder, sleepers >>
        /\ (seeder' # seeder \/ sleepers' # sleepers) => resources'[r] = resources[r]

C23_Found ==
    \A p \in Pollers :
        poller[p].pc = "poll" =>
            /\ resources[poller[p].r].errCount = Len(run[poller[p].r])
            /\ \A i \in 1..Len(run[poller[p].r]) : run[poller[p].r][i].err

C23_ResourceFrame == []C23_Found /\ [][C23_Step]_vars

\* C23 witness: a Resource that failed two probes in a row has gone through
\* complete, its delay and pending twice and is again in a Poller, about to
\* be probed, with errCount 2.
C23_Witness ==
    \E p \in Pollers :
        /\ poller[p].pc = "poll"
        /\ resources[poller[p].r].errCount = 2
        /\ Len(delays[poller[p].r]) = 2

\* C24 (independent delays): main is ready to receive on complete whatever
\* the Sleep goroutines are doing, so a Poller at its send on complete can
\* always complete it, and each receive adds one Sleep goroutine, already
\* waiting; every Sleep can end its wait and, with a Poller at its receive,
\* send its Resource on pending, whatever the other Sleeps are doing.
C24_Ready ==
    /\ \A p \in Pollers : poller[p].pc = "out" => ENABLED PollerSendOut(p)
    /\ \A sl \in BagToSet(sleepers) :
        /\ sl.pc = "sleep" => ENABLED SleepWake(sl)
        /\ \A p \in Pollers :
            (sl.pc = "send" /\ poller[p].pc = "recv") => ENABLED SleepSend(sl, p)

C24_Step ==
    \A p \in Pollers :
        (poller[p].pc = "out" /\ poller'[p].pc # "out") =>
            /\ BagCardinality(sleepers') = BagCardinality(sleepers) + 1
            /\ SleepersIn(sleepers', poller[p].r, "sleep") = 1

C24_IndependentDelays == []C24_Ready /\ [][C24_Step]_vars

\* C24 witness: one Sleep is still waiting out a delay of 80 s, another,
\* whose 60 s have passed, is at its send on pending with a Poller free to
\* receive, and the other Poller is at its send on complete.
C24_Witness ==
    /\ \E sl \in BagToSet(sleepers) : sl.pc = "sleep" /\ sl.d = 80
    /\ \E sl \in BagToSet(sleepers) : sl.pc = "send" /\ sl.d = 60
    /\ \E p \in Pollers : poller[p].pc = "recv"
    /\ \E p \in Pollers : poller[p].pc = "out"

\* More urls were given than Pollers started.
FewerPollers == Cardinality(Pollers) < Cardinality(DOMAIN ahead)

\* main is blocked at a send on pending and every Poller at its send on
\* complete.
InlineDeadlock ==
    /\ seeder.pc = "send"
    /\ \A p \in Pollers : poller[p].pc = "out"

\* C25 (seeding without a goroutine deadlocks): when main itself does the
\* seeding and there are fewer Pollers than urls, the program comes to a
\* state in which main is blocked sending on pending and every Poller is
\* blocked sending on complete; in such a state no step of a Poller, of main
\* or of a Sleep is enabled, and the program stays in it for ever.
C25_InlineSeedingDeadlock ==
    /\ []((FewerPollers /\ InlineDeadlock) => ~ENABLED NextInlineWork)
    /\ <>[](FewerPollers => InlineDeadlock)

\* C25 witness: two Pollers, three urls; both Pollers have probed and
\* reported and are at their send on complete, main is at the send of the
\* third Resource, and the ticker goes on firing.
C25_Witness ==
    /\ Cardinality(Pollers) = 2
    /\ Cardinality(DOMAIN ahead) = 3
    /\ InlineDeadlock
    /\ Cardinality(DOMAIN resources) = 3
    /\ DOMAIN urlStatus = {urls[1], urls[2]}
    /\ Len(logs) = 2

\* The urls the seeding loop has visited: those given less those to come.
Seeded ==
    DOMAIN ahead \ {seeder.todo[i] : i \in (IF seeder.pc = "send" THEN 2 ELSE 1)..Len(seeder.todo)}

\* C26 (one Resource per url): at any time the Resources are one for each
\* url the seeding loop has visited and no other - never two for one url,
\* never more than urls given, each held by some goroutine - and once the
\* loop is over one for each url given.  A Resource appears only in the
\* allocation step of the seeding loop, with errCount 0, and none
\* disappears.
C26_Resources ==
    /\ \A r1, r2 \in DOMAIN resources :
        resources[r1].url = resources[r2].url => r1 = r2
    /\ {resources[r].url : r \in DOMAIN resources} = Seeded
    /\ Cardinality(DOMAIN resources) <= Cardinality(DOMAIN ahead)
    /\ seeder.pc = "done" => Cardinality(DOMAIN resources) = Cardinality(DOMAIN ahead)
    /\ \A r \in DOMAIN resources : Holders(r) >= 1

C26_Step ==
    /\ DOMAIN resources \subseteq DOMAIN resources'
    /\ \A r \in DOMAIN resources' \ DOMAIN resources :
        /\ seeder.pc = "alloc"
        /\ resources'[r] = [url |-> Head(seeder.todo), errCount |-> 0]

C26_OneResourcePerUrl == []C26_Resources /\ [][C26_Step]_vars

\* C26 witness: seeding is over, three Resources exist for the three urls,
\* and one of them, after two failed probes, is on its way back to a Poller.
C26_Witness ==
    /\ seeder.pc = "done"
    /\ Cardinality(DOMAIN resources) = 3
    /\ \E sl \in BagToSet(sleepers) : sl.pc = "send" /\ resources[sl.r].errCount = 2

\* C27 (contents of urlStatus): the map is empty when the monitor starts;
\* at any time its keys are exactly the urls of the States whose update
\* the monitor has carried out, all of them urls given to the program;
\* and no step removes a key.
C27_Keys ==
    /\ DOMAIN urlStatus = stored
    /\ stored \subseteq DOMAIN ahead
    /\ (received = << >>) => (urlStatus = << >>)

C27_Step == DOMAIN urlStatus \subseteq DOMAIN urlStatus'

C27_StatusTable == []C27_Keys /\ [][C27_Step]_vars

\* C27 witness: the monitor has stored the status of two of the three urls
\* and holds, not yet stored, a State of the third.
C27_Witness ==
    /\ Cardinality(DOMAIN urlStatus) = 2
    /\ monitor.pc = "update"
    /\ monitor.s.url \notin DOMAIN urlStatus
    /\ Cardinality(DOMAIN ahead) = 3

\* x * n on natural numbers of any size, n >= 0.
RECURSIVE MulNat(_, _)
MulNat(x, n) ==
    IF n = 0 THEN << >>
    ELSE AddNat(Strip(MulCarry(x, n % Digit, 0)),
                Strip(MulCarry(MulNat(x, n \div Digit), Digit, 0)))

\* The natural number n < 2^31 as a numeral.
Nat31(n) == Strip(<< n % Limb, n \div Limb >>)

\* 60 s + 10 s * k in nanoseconds, as a natural number.
LinearDelay(k) ==
    AddNat(MulNat(Nat31(Second), pollInterval),
           MulNat(MulNat(Nat31(Second), errTimeout), k))

\* C28 (uncapped linear backoff): for every count k of consecutive errors
\* the Duration Sleep waits is the non-negative number of nanoseconds
\* 60 s + k * 10 s: at least pollInterval, errTimeout more for each error
\* more, never capped and never wrapped.
C28_LinearBackoff ==
    nap.pc = "Poll" => IntIsNat(nap.d, LinearDelay(nap.errCount))

\* C29 (deadlock freedom): with at least one Poller and one url, in every
\* reachable state some step other than a tick of the monitor is enabled,
\* the end of a Sleep's wait counting as a step; and when no Poller, Sleep,
\* main or seeding step is enabled, a Poller is at its send on status and
\* the monitor is about to store the State it holds, after which it
\* receives again.
C29_DeadlockFreedom ==
    /\ ENABLED NextNoTick
    /\ ~ENABLED NextWork =>
        /\ monitor.pc = "update"
        /\ \E p \in Pollers : poller[p].pc = "status"

\* C29 witness: after seeding every Resource has been polled and is in a
\* Sleep that waits, every Poller waits on in: only the passing of a delay
\* can be the next step of the pipeline.
C29_Witness ==
    /\ seeder.pc = "done"
    /\ Cardinality(DOMAIN resources) = 3
    /\ monitor.pc = "select"
    /\ \A r \in DOMAIN resources : SleepersIn(sleepers, r, "sleep") = 1
    /\ ~ENABLED (NextNoTick /\ ~\E sl \in BagToSet(sleepers) : SleepWake(sl))

\* At rest: on its way over complete, in a Sleep's wait, or offered on
\* pending, after at least one probe.
ProbedAtRest(r) ==
    /\ run[r] # << >>
    /\ OnCompleted(r) + InDelay(r) + OnPending(r) >= 1

RECURSIVE FailedSince(_)
FailedSince(s) ==
    IF s = << >> \/ ~Last(s).err THEN 0
    ELSE 1 + FailedSince(SubSeq(s, 1, Len(s) - 1))

\* C32 (counter meaning): the errCount of every Resource is not negative
\* and is the number of its probes that have failed since its last
\* successful probe, or since it was made when none has succeeded, whichever
\* Pollers made those probes.
C32_CounterMeaning ==
    \A r \in DOMAIN resources :
        /\ resources[r].errCount >= 0
        /\ resources[r].errCount = FailedSince(run[r])

\* C32 witness: a Resource's count is 2 after two failed probes made by
\* different Pollers (their States are both still unstored), and another
\* Resource's count is 0 after a success that followed a failure.
C32_Witness ==
    \E r, x \in DOMAIN resources :
        /\ resources[r].errCount = 2
        /\ Len(emitted[r]) = 2
        /\ emitted[r][1].by # emitted[r][2].by
        /\ resources[x].errCount = 0
        /\ Len(run[x]) = 2
        /\ run[x][1].err

\* The States of Resource r built by a probe that the monitor has not yet
\* received: those not stored, less the one the monitor holds.
Undelivered(r) == Len(emitted[r]) - lag[resources[r].url]

RECURSIVE SumUndelivered(_)
SumUndelivered(R) ==
    IF R = {} THEN 0
    ELSE LET r == CHOOSE x \in R : TRUE
         IN  Undelivered(r) + SumUndelivered(R \ {r})

\* C33 (at most one undelivered State per url): for each url at most one
\* State has been built by a probe and not yet received by the monitor, it
\* is the one a Poller is blocked sending, and all together they are never
\* more than the Pollers.
C33_OneUndelivered ==
    /\ \A r \in DOMAIN resources :
        /\ Undelivered(r) \in {0, 1}
        /\ Undelivered(r) = PollersAt(r, {"status"})
        /\ \A x \in DOMAIN resources :
            (x # r /\ resources[x].url = resources[r].url) => Undelivered(x) + Undelivered(r) <= 1
    /\ SumUndelivered(DOMAIN resources) <= Cardinality(Pollers)

\* C33 witness: every Poller is blocked sending a State, so as many are
\* undelivered as there are Pollers, while the monitor holds an earlier
\* State of one of those urls.
C33_Witness ==
    /\ SumUndelivered(DOMAIN resources) = Cardinality(Pollers)
    /\ Cardinality(Pollers) = 2
    /\ monitor.pc = "update"
    /\ \E r \in DOMAIN resources : Undelivered(r) = 1 /\ Len(emitted[r]) = 2

\* C31 (status delivery liveness): under fair scheduling no Poller stays
\* blocked at its send on status for ever (it leaves it only by the monitor
\* receiving its State), again and again the monitor is at its select with
\* every State it has received stored, whatever ticks occur meanwhile; the
\* monitor is always at its select or about to come back to it, and it
\* receives a State again and again for ever.
C31_StatusDelivery ==
    /\ \A p \in 1..numPollers :
        []<>~(p \in Pollers /\ poller[p].pc = "status")
    /\ []<>(monitor.pc = "select" /\ \A u \in DOMAIN lag : lag[u] = 0)
    /\ [](monitor.pc \in {"select", "update"})
    /\ []<><<\E p \in Pollers : PollerSendStatus(p)>>_vars

\* C31 witness: two Pollers are both blocked at their send on status while
\* the monitor, at its select, has logged two snapshots since its last
\* update.
C31_Witness ==
    /\ \E p, q \in Pollers : p # q /\ poller[p].pc = "status" /\ poller[q].pc = "status"
    /\ monitor.pc = "select"
    /\ Len(logs) = 2

\* The elements of List l of heap h, from its head on.
RECURSIVE Elems(_, _)
Elems(h, l) ==
    IF h.lists[l].head = NilNode THEN << >>
    ELSE << h.nodes[h.lists[l].head].elem >> \o Elems(h, h.nodes[h.lists[l].head].next)

\* s with its elements in the opposite order.
Reverse(s) == [i \in 1..Len(s) |-> s[Len(s) + 1 - i]]

\* A step of a List is a LIFO step: Pop on a List that is not empty returns
\* the element pushed last among those not yet popped, with a nil error,
\* and takes just that element away; Pop on an empty List returns the zero
\* value and an error and leaves the List empty; Push puts its element in
\* front of the others.
C34_Step ==
    /\ (list'.ret.op = "Pop" /\ list.pushed # << >>) =>
        /\ list'.ret.elem = Last(list.pushed)
        /\ list'.ret.err = NilError
        /\ Elems(list.h, list.lst) = << list'.ret.elem >> \o Elems(list'.h, list'.lst)
    /\ (list'.ret.op = "Pop" /\ list.pushed = << >>) =>
        /\ list'.ret.elem = ZeroInt
        /\ list'.ret.err # NilError
        /\ Elems(list'.h, list'.lst) = << >>
    /\ \A elem \in 0..MaxElem :
        ListPush(elem) => Elems(list'.h, list'.lst) = << elem >> \o Elems(list.h, list.lst)

\* At any time the List holds the elements pushed and not yet popped, the
\* last pushed first.
C34_Holds == list.pc = "run" => Elems(list.h, list.lst) = Reverse(list.pushed)

\* C34 (List is a LIFO stack): after any sequence of Push and Pop the List
\* holds the elements pushed and not yet popped, last pushed first, and
\* every step is a LIFO step as above; so a List emptied by Pop, or on
\* which Pop has failed, takes later Push calls like a new one.
C34_Lifo == []C34_Holds /\ [][C34_Step]_vars

\* C34 witness: Pop has just failed on a List that was filled and emptied
\* before.
C34_Witness ==
    /\ list.pc = "run"
    /\ list.ret = [op |-> "Pop", elem |-> ZeroInt, err |-> ErrEmptyList]
    /\ Len(list.h.nodes) = 3
    /\ Elems(list.h, list.lst) = << >>

=============================================================================
